---------------------------- MODULE Spec2Model ----------------------------
(***************************************************************************)
(* Character creation flow of the HappyTracker web app.                    *)
(*                                                                         *)
(* The flow component (DynamicCharacterPage) is a React function           *)
(* component: its state is the useState cells, its operations are the      *)
(* event handlers, the setTimeout callbacks they schedule and the          *)
(* continuations of their awaits.  Delays are abstracted: any pending      *)
(* callback and any outstanding promise may run next.  A callback keeps    *)
(* the values its closure captured when the handler that made it ran.      *)
(***************************************************************************)
EXTENDS Integers, Naturals, Sequences, FiniteSets, Bags, TLC

VARIABLES
    currentStep,       \* useState<FlowStep>
    characterData,     \* useState<CharacterData>
    cartoonGenerated,  \* useState(false)
    cartoonImage,      \* useState<string | null>
    generationCost,    \* useState<number | null>
    characterSaved,    \* useState(false)
    hfToken,           \* HuggingFaceService.HF_TOKEN ('' when the build sets none)
    timers,            \* bag of pending setTimeout callbacks
    analyses,          \* bag of outstanding analyzePhoto calls (their photo)
    renders,           \* bag of outstanding generateCartoonFromPhoto calls
    renderCalls,       \* number of generateCartoonFromPhoto calls issued
    renderResult,      \* how the last render call settled
    pendingSave,       \* saveCharacterToGallery suspended on the FileReader
    gallery,           \* the records handed to CharacterStorage.saveCharacter
    uploads,           \* number of handlePhotoUpload calls so far
    invocation,        \* the running call of HuggingFaceService, where it is suspended
    thrown,            \* the errors analyzeFace's callers received, with their cause
    faceAnalysis,      \* the FaceAnalysis at hand (null when there is none)
    characteristics,   \* the value of createPopCharacteristics (null before it ran)
    localAnalysis,     \* LocalFaceAnalysis: its static fields and its running analyzeFace
    objectURLs,        \* bag of the object URLs created and not revoked, by creator
    estimates,         \* the results analyzeFace computed from pixels, with the pixels
    argument,          \* the argument a function of LocalFaceAnalysis is applied to
    returned           \* the value it returned (null before it was applied)

vars == <<currentStep, characterData, cartoonGenerated, cartoonImage,
          generationCost, characterSaved, hfToken, timers, analyses, renders,
          renderCalls, renderResult, pendingSave, gallery, uploads,
          invocation, thrown, faceAnalysis, characteristics,
          localAnalysis, objectURLs, estimates, argument, returned>>

\* the state of the flow component
flow == <<currentStep, characterData, cartoonGenerated, cartoonImage,
          generationCost, characterSaved, timers, analyses, renders,
          renderCalls, renderResult, pendingSave, gallery, uploads>>

\* the state of HuggingFaceService, which the flow component never touches
service == <<hfToken, invocation, thrown, faceAnalysis, characteristics>>

\* the state of LocalFaceAnalysis and of the browser's object URLs
local == <<localAnalysis, objectURLs, estimates, argument, returned>>

\* null / undefined, and a value that is present
NULL == <<>>

Some(x) == <<x>>

The(opt) == opt[1]

-----------------------------------------------------------------------------
(* Bounds of the model *)

MaxUploads == 2      \* photo submissions per session
MaxTimers == 2       \* setTimeout callbacks pending at once
MaxRenderCalls == 2  \* render calls counted per session
MaxPreviews == 2     \* renders of the photo step's preview per session
MaxInitializeCalls == 2  \* direct calls of LocalFaceAnalysis.initialize

-----------------------------------------------------------------------------
(* Strings are sequences of one-character strings *)

old_man_jpg == <<"o","l","d","_","m","a","n",".","j","p","g">>
Teen_png == <<"T","e","e","n",".","p","n","g">>

Photos == {old_man_jpg, Teen_png}

Names == { <<>>, <<" ">>, <<"A","l">> }

toLowerCaseChar(c) ==
    CASE c = "T" -> "t"
      [] c = "A" -> "a"
      [] OTHER -> c

toLowerCase(s) == [i \in DOMAIN s |-> toLowerCaseChar(s[i])]

includes(s, sub) ==
    \E i \in 1..(Len(s) - Len(sub) + 1) : SubSeq(s, i, i + Len(sub) - 1) = sub

RECURSIVE trimStart(_)
trimStart(s) == IF s # <<>> /\ Head(s) = " " THEN trimStart(Tail(s)) ELSE s

RECURSIVE trimEnd(_)
trimEnd(s) ==
    IF s # <<>> /\ s[Len(s)] = " " THEN trimEnd(SubSeq(s, 1, Len(s) - 1)) ELSE s

trim(s) == trimEnd(trimStart(s))

-----------------------------------------------------------------------------
(* The flow's steps *)

steps == <<"loading", "photo", "name", "age", "measures", "card", "complete">>

indexOf(step) == CHOOSE i \in DOMAIN steps : steps[i] = step

\* nextStep with currentStep as its closure captured it
nextStep(captured) ==
    LET currentIndex == indexOf(captured)
    IN  IF currentIndex < Len(steps) THEN steps[currentIndex + 1] ELSE captured

\* Math.floor(Math.random() * n): a value of 0..n-1, here the highest
RandFloor(n) == {k \in 0..(n - 1) : k = n - 1}

hfApiEnabled == TRUE

\* a fallback that reuses analyzePhoto's starting values instead of the defaults
fallbackGuesses_base == [age |-> 30, height |-> 175, weight |-> 70]

\* handlePhotoUpload's catch: const fallbackGuesses
fallbackGuesses == [age |-> 25, height |-> 170, weight |-> 70]

\* the results analyzePhoto can resolve to for a photo
analyzePhoto(photo) ==
    LET fileName == toLowerCase(photo)
        isOld == \/ includes(fileName, <<"o","l","d">>)
                 \/ includes(fileName, <<"e","l","d","e","r","l","y">>)
                 \/ includes(fileName, <<"s","e","n","i","o","r">>)
        isYoung == \/ includes(fileName, <<"y","o","u","n","g">>)
                   \/ includes(fileName, <<"t","e","e","n">>)
                   \/ includes(fileName, <<"c","h","i","l","d">>)
        draw(an, a0, hn, h0, wn, w0) ==
            {[age |-> a + a0, height |-> h + h0, weight |-> w + w0] :
                a \in RandFloor(an), h \in RandFloor(hn), w \in RandFloor(wn)}
    IN  IF hfApiEnabled
        THEN IF isOld THEN draw(20, 65, 15, 165, 20, 60)
             ELSE IF isYoung THEN draw(15, 15, 20, 160, 25, 55)
             ELSE draw(30, 25, 25, 165, 30, 60)
        ELSE IF isOld THEN draw(25, 60, 15, 165, 20, 60)
             ELSE IF isYoung THEN draw(15, 18, 20, 160, 25, 55)
             ELSE draw(25, 25, 25, 165, 30, 60)

\* an update that spreads the characterData of the last render instead of prev
updateCharacterData_fromRender(prev, field, value) ==
    [characterData EXCEPT ![field] = value]

\* updateCharacterData: the functional update { ...prev, [field]: value }
updateCharacterData(prev, field, value) == [prev EXCEPT ![field] = value]

\* what a range input hands to its onChange: a value of min..max, here the highest
SliderValues(min, max) == {v \in min..max : v = max}

Schedule(fn, step) == timers (+) SetToBag({[fn |-> fn, step |-> step]})

TimerRoom == BagCardinality(timers) < MaxTimers

-----------------------------------------------------------------------------
\* the flow component's state after construction
FlowNotStarted ==
    /\ currentStep = "loading"
    /\ characterData = [photo |-> NULL, name |-> <<>>, age |-> 25,
                        height |-> 170, weight |-> 70,
                        aiGuesses |-> [age |-> 25, height |-> 170, weight |-> 70]]
    /\ cartoonGenerated = FALSE
    /\ cartoonImage = NULL
    /\ generationCost = NULL
    /\ characterSaved = FALSE
    /\ timers = EmptyBag
    /\ analyses = EmptyBag
    /\ renders = EmptyBag
    /\ renderCalls = 0
    /\ renderResult = "none"
    /\ pendingSave = NULL
    /\ gallery = {}
    /\ uploads = 0

\* LocalFaceAnalysis as the class is loaded: modelsLoaded = false,
\* loadingPromise = null (FALSE here), no call of analyzeFace, no call of
\* initialize (initializing counts the bodies of initialize suspended at
\* their await, loadModels the runs of loadModels)
idleLocalAnalysis ==
    [modelsLoaded |-> FALSE, loadingPromise |-> FALSE, pc |-> "idle",
     file |-> NULL, coldStart |-> FALSE, outcome |-> "none", result |-> NULL,
     initializeCalls |-> 0, initializing |-> 0, loadModels |-> 0,
     ownInitialize |-> FALSE]

noArgument == [fn |-> "none", pixel |-> <<>>, data |-> <<>>, filename |-> <<>>]

LocalNotStarted ==
    /\ localAnalysis = idleLocalAnalysis
    /\ objectURLs = EmptyBag
    /\ estimates = {}
    /\ argument = noArgument
    /\ returned = NULL

Init ==
    /\ FlowNotStarted
    /\ LocalNotStarted
    /\ hfToken = ""
    /\ invocation = [op |-> "none", pc |-> "idle", imageData |-> <<>>,
                     fetches |-> <<>>, response |-> NULL, error |-> NULL,
                     popImageUrl |-> NULL]
    /\ thrown = {}
    /\ faceAnalysis = NULL
    /\ characteristics = NULL

\* a timer that was cleared before its delay ran out: the step stays
LoadingTimeout_cleared ==
    /\ currentStep = "loading"
    /\ UNCHANGED vars

\* useEffect: the timer armed while the step is loading
LoadingTimeout ==
    /\ currentStep = "loading"
    /\ currentStep' = "photo"
    /\ UNCHANGED <<characterData, cartoonGenerated, cartoonImage, generationCost,
                   characterSaved, service, local, timers, analyses, renders,
                   renderCalls, renderResult, pendingSave, gallery, uploads>>

\* a setTimeout callback runs: nextStep of the captured render, or setCurrentStep
TimerFires ==
    \E t \in BagToSet(timers) :
        /\ timers' = timers (-) SetToBag({t})
        /\ currentStep' = IF t.fn = "nextStep" THEN nextStep(t.step) ELSE t.step
        /\ UNCHANGED <<characterData, cartoonGenerated, cartoonImage,
                       generationCost, characterSaved, service, local, analyses, renders,
                       renderCalls, renderResult, pendingSave, gallery, uploads>>


\* the photo inputs' onChange: handlePhotoUpload up to its await
HandlePhotoUpload(photo) ==
    /\ currentStep = "photo"
    /\ uploads < MaxUploads
    /\ uploads' = uploads + 1
    /\ characterData' = updateCharacterData(characterData, "photo", Some(photo))
    /\ analyses' = analyses (+) SetToBag({[photo |-> photo, step |-> currentStep]})
    /\ UNCHANGED <<currentStep, cartoonGenerated, cartoonImage, generationCost,
                   characterSaved, service, local, timers, renders, renderCalls,
                   renderResult, pendingSave, gallery>>

\* the updates without the one of the age
SeedGuesses_ageKept(prev, guesses) ==
    LET d1 == updateCharacterData(prev, "aiGuesses", guesses)
        d3 == updateCharacterData(d1, "height", guesses.height)
    IN  updateCharacterData(d3, "weight", guesses.weight)

\* the four updates handlePhotoUpload makes with a set of guesses
SeedGuesses(prev, guesses) ==
    LET d1 == updateCharacterData(prev, "aiGuesses", guesses)
        d2 == updateCharacterData(d1, "age", guesses.age)
        d3 == updateCharacterData(d2, "height", guesses.height)
    IN  updateCharacterData(d3, "weight", guesses.weight)

\* handlePhotoUpload after its await, analyzePhoto resolved
AnalysisResolves ==
    \E a \in BagToSet(analyses) : \E aiGuesses \in analyzePhoto(a.photo) :
        /\ TimerRoom
        /\ analyses' = analyses (-) SetToBag({a})
        /\ characterData' = SeedGuesses(characterData, aiGuesses)
        /\ timers' = Schedule("nextStep", a.step)
        /\ UNCHANGED <<currentStep, cartoonGenerated, cartoonImage,
                       generationCost, characterSaved, service, local, renders,
                       renderCalls, renderResult, pendingSave, gallery, uploads>>

\* a catch that seeds the fallback guesses and schedules nothing
AnalysisRejects_unscheduled ==
    \E a \in BagToSet(analyses) :
        /\ TimerRoom
        /\ analyses' = analyses (-) SetToBag({a})
        /\ characterData' = SeedGuesses(characterData, fallbackGuesses)
        /\ UNCHANGED <<currentStep, cartoonGenerated, cartoonImage, timers,
                       generationCost, characterSaved, service, local, renders,
                       renderCalls, renderResult, pendingSave, gallery, uploads>>

\* handlePhotoUpload's catch: the awaited analysis rejected (a step of
\* SpecEstimatorRejects only)
AnalysisRejects ==
    \E a \in BagToSet(analyses) :
        /\ TimerRoom
        /\ analyses' = analyses (-) SetToBag({a})
        /\ characterData' = SeedGuesses(characterData, fallbackGuesses)
        /\ timers' = Schedule("nextStep", a.step)
        /\ UNCHANGED <<currentStep, cartoonGenerated, cartoonImage,
                       generationCost, characterSaved, service, local, renders,
                       renderCalls, renderResult, pendingSave, gallery, uploads>>

\* the name input's onChange
UpdateName ==
    \E value \in Names :
        /\ currentStep = "name"
        /\ characterData' = updateCharacterData(characterData, "name", value)
        /\ UNCHANGED <<currentStep, cartoonGenerated, cartoonImage,
                       generationCost, characterSaved, service, local, timers, analyses,
                       renders, renderCalls, renderResult, pendingSave, gallery,
                       uploads>>

HandleNameSubmit ==
    /\ currentStep = "name"
    /\ trim(characterData.name) # <<>>
    /\ TimerRoom
    /\ timers' = Schedule("nextStep", currentStep)
    /\ UNCHANGED <<currentStep, characterData, cartoonGenerated, cartoonImage,
                   generationCost, characterSaved, service, local, analyses, renders,
                   renderCalls, renderResult, pendingSave, gallery, uploads>>

AgeMin == 18
AgeMax == 80
HeightMin == 120
HeightMax == 220
WeightMin == 40
WeightMax == 150

\* the age slider's onChange
UpdateAge ==
    \E value \in SliderValues(AgeMin, AgeMax) :
        /\ currentStep = "age"
        /\ characterData' = updateCharacterData(characterData, "age", value)
        /\ UNCHANGED <<currentStep, cartoonGenerated, cartoonImage,
                       generationCost, characterSaved, service, local, timers, analyses,
                       renders, renderCalls, renderResult, pendingSave, gallery,
                       uploads>>

HandleAgeAdjust ==
    /\ currentStep = "age"
    /\ TimerRoom
    /\ timers' = Schedule("nextStep", currentStep)
    /\ UNCHANGED <<currentStep, characterData, cartoonGenerated, cartoonImage,
                   generationCost, characterSaved, service, local, analyses, renders,
                   renderCalls, renderResult, pendingSave, gallery, uploads>>

\* the height slider's onChange
UpdateHeight ==
    \E value \in SliderValues(HeightMin, HeightMax) :
        /\ currentStep = "measures"
        /\ characterData' = updateCharacterData(characterData, "height", value)
        /\ UNCHANGED <<currentStep, cartoonGenerated, cartoonImage,
                       generationCost, characterSaved, service, local, timers, analyses,
                       renders, renderCalls, renderResult, pendingSave, gallery,
                       uploads>>

\* the weight slider's onChange
UpdateWeight ==
    \E value \in SliderValues(WeightMin, WeightMax) :
        /\ currentStep = "measures"
        /\ characterData' = updateCharacterData(characterData, "weight", value)
        /\ UNCHANGED <<currentStep, cartoonGenerated, cartoonImage,
                       generationCost, characterSaved, service, local, timers, analyses,
                       renders, renderCalls, renderResult, pendingSave, gallery,
                       uploads>>

HandleMeasuresComplete ==
    /\ currentStep = "measures"
    /\ TimerRoom
    /\ timers' = Schedule("setCurrentStep", "card")
    /\ UNCHANGED <<currentStep, characterData, cartoonGenerated, cartoonImage,
                   generationCost, characterSaved, service, local, analyses, renders,
                   renderCalls, renderResult, pendingSave, gallery, uploads>>

-----------------------------------------------------------------------------
(* The confirmation card, the render call and the gallery *)

\* a render button that is never disabled
renderButtonDisabled_never == FALSE

\* the render button's disabled attribute
renderButtonDisabled == cartoonGenerated

\* what generateCartoonFromPhoto can settle with, as handleCardComplete reads it
RenderResults ==
    {[success |-> TRUE, imageUrl |-> Some("data:image/png"), breakdown |-> TRUE,
      cost |-> Some(3)],
     [success |-> TRUE, imageUrl |-> Some("data:image/png"), breakdown |-> FALSE,
      cost |-> NULL],
     [success |-> TRUE, imageUrl |-> NULL, breakdown |-> FALSE, cost |-> NULL],
     [success |-> FALSE, imageUrl |-> NULL, breakdown |-> FALSE, cost |-> NULL]}

\* a click on the render button while it is disabled reaches no handler
RenderClickIgnored ==
    /\ currentStep = "card"
    /\ renderButtonDisabled
    /\ UNCHANGED <<currentStep, characterData, cartoonGenerated, cartoonImage,
                   generationCost, characterSaved, service, local, timers, analyses,
                   renders, renderCalls, renderResult, pendingSave, gallery,
                   uploads>>

\* handleCardComplete up to its await (or its return when there is no photo)
HandleCardComplete ==
    /\ currentStep = "card"
    /\ ~renderButtonDisabled
    /\ renderCalls < MaxRenderCalls
    /\ cartoonGenerated' = TRUE
    /\ IF characterData.photo = NULL
       THEN /\ TimerRoom
            /\ timers' = Schedule("setCurrentStep", "complete")
            /\ UNCHANGED <<renders, renderCalls>>
       ELSE /\ renders' = renders (+) SetToBag({[photo |-> The(characterData.photo),
                                                 name |-> characterData.name]})
            /\ renderCalls' = renderCalls + 1
            /\ UNCHANGED timers
    /\ UNCHANGED <<currentStep, characterData, cartoonImage, generationCost,
                   characterSaved, service, local, analyses, renderResult, pendingSave,
                   gallery, uploads>>

\* handleCardComplete after its await: result.success && result.imageUrl
RenderSucceeds ==
    \E r \in BagToSet(renders) : \E result \in RenderResults :
        /\ result.success /\ result.imageUrl # NULL
        /\ TimerRoom
        /\ renders' = renders (-) SetToBag({r})
        /\ generationCost' = IF result.breakdown
                             THEN Some(IF result.cost = NULL THEN 0 ELSE The(result.cost))
                             ELSE generationCost
        /\ cartoonImage' = result.imageUrl
        /\ timers' = Schedule("setCurrentStep", "complete")
        /\ renderResult' = "succeeded"
        /\ UNCHANGED <<currentStep, characterData, cartoonGenerated,
                       characterSaved, service, local, analyses, renderCalls,
                       pendingSave, gallery, uploads>>

\* handleCardComplete after its await: the else branch (alert, return)
RenderFails ==
    \E r \in BagToSet(renders) : \E result \in RenderResults :
        /\ ~(result.success /\ result.imageUrl # NULL)
        /\ renders' = renders (-) SetToBag({r})
        /\ renderResult' = "failed"
        /\ UNCHANGED <<currentStep, characterData, cartoonGenerated, cartoonImage,
                       generationCost, characterSaved, service, local, timers, analyses,
                       renderCalls, pendingSave, gallery, uploads>>

\* handleCardComplete's catch: the awaited render call threw
RenderThrows ==
    \E r \in BagToSet(renders) :
        /\ TimerRoom
        /\ renders' = renders (-) SetToBag({r})
        /\ timers' = Schedule("setCurrentStep", "complete")
        /\ renderResult' = "threw"
        /\ UNCHANGED <<currentStep, characterData, cartoonGenerated, cartoonImage,
                       generationCost, characterSaved, service, local, analyses,
                       renderCalls, pendingSave, gallery, uploads>>

\* a first test that forgets the artifact
saveRefused_nameOnly(image, name) == name = <<>>

\* saveCharacterToGallery's first test: !cartoonImage || !characterData.name
saveRefused(image, name) == image = NULL \/ name = <<>>

\* the record saveCharacterToGallery builds from the values of its render
\* (its name and its artifact; the other fields are copied the same way)
savedRecord ==
    [name |-> characterData.name, cartoonImage |-> cartoonImage]

\* saveCharacterToGallery returning at its first test
SaveRefused ==
    /\ currentStep # "loading"
    /\ saveRefused(cartoonImage, characterData.name)
    /\ UNCHANGED <<currentStep, characterData, cartoonGenerated, cartoonImage,
                   generationCost, characterSaved, service, local, timers, analyses,
                   renders, renderCalls, renderResult, pendingSave, gallery,
                   uploads>>

\* saveCharacterToGallery up to its await on the FileReader
SaveStarts ==
    /\ currentStep # "loading"
    /\ ~saveRefused(cartoonImage, characterData.name)
    /\ pendingSave = NULL
    /\ IF characterData.photo # NULL
       THEN /\ pendingSave' = Some(savedRecord)
            /\ UNCHANGED <<gallery, characterSaved>>
       ELSE /\ gallery' = gallery \cup {savedRecord}
            /\ characterSaved' = TRUE
            /\ UNCHANGED pendingSave
    /\ UNCHANGED <<currentStep, characterData, cartoonGenerated, cartoonImage,
                   generationCost, service, local, timers, analyses, renders,
                   renderCalls, renderResult, uploads>>

\* saveCharacterToGallery after its await: CharacterStorage.saveCharacter
SaveFinishes ==
    /\ pendingSave # NULL
    /\ gallery' = gallery \cup {The(pendingSave)}
    /\ characterSaved' = TRUE
    /\ pendingSave' = NULL
    /\ UNCHANGED <<currentStep, characterData, cartoonGenerated, cartoonImage,
                   generationCost, service, local, timers, analyses, renders,
                   renderCalls, renderResult, uploads>>

\* saveCharacterToGallery's catch: the FileReader or the storage threw
SaveThrows ==
    /\ pendingSave # NULL
    /\ pendingSave' = NULL
    /\ UNCHANGED <<currentStep, characterData, cartoonGenerated, cartoonImage,
                   generationCost, characterSaved, service, local, timers, analyses,
                   renders, renderCalls, renderResult, gallery, uploads>>

-----------------------------------------------------------------------------
Next ==
    \/ LoadingTimeout
    \/ TimerFires
    \/ \E photo \in Photos : HandlePhotoUpload(photo)
    \/ AnalysisResolves
    \/ UpdateName
    \/ HandleNameSubmit
    \/ UpdateAge
    \/ HandleAgeAdjust
    \/ UpdateHeight
    \/ UpdateWeight
    \/ HandleMeasuresComplete
    \/ RenderClickIgnored
    \/ HandleCardComplete
    \/ RenderSucceeds
    \/ RenderFails
    \/ RenderThrows
    \/ SaveRefused
    \/ SaveStarts
    \/ SaveFinishes
    \/ SaveThrows

Spec == Init /\ [][Next]_vars

\* analyzePhoto as written never rejects, so Next leaves handlePhotoUpload's
\* catch out.  This specification adds it: the flow with an estimator whose
\* promise may reject.
NextEstimatorRejects ==
    \/ Next
    \/ AnalysisRejects

SpecEstimatorRejects == Init /\ [][NextEstimatorRejects]_vars

\* The flow with the loading timer bound to fire.  The effect arms
\* setTimeout(..., 2000) on mount; its cleanup runs only when currentStep
\* changes or the component unmounts, and the browser runs a timer that is
\* not cleared once its delay has passed.
SpecLoadingFair == Init /\ [][Next]_vars /\ WF_vars(LoadingTimeout)

\* The flow with handlePhotoUpload bound to go on.  analyzePhoto's promise
\* settles (it awaits a 3 s timeout and touches no network), after which the
\* try or the catch runs to its setTimeout(nextStep, 1000); the browser runs
\* a timer that nothing clears, and the component clears none of these.
SpecPhotoFair ==
    /\ Init
    /\ [][NextEstimatorRejects]_vars
    /\ WF_vars(AnalysisResolves \/ AnalysisRejects)
    /\ WF_vars(TimerFires)

-----------------------------------------------------------------------------
(* HuggingFaceService: one call of analyzeFace or generate3DPop at a time,  *)
(* suspended at its awaits.  Numbers are in tenths (1000 is 100.0); the     *)
(* values used are multiples of 5.0, so the products by 0.5, 0.4 and 0.3    *)
(* are exact.                                                               *)

Tokens == {"", "hf_token"}

jpeg_dataurl == <<"d","a","t","a",":","i","m","a","g","e","/","j","p","e","g",";","b","a","s","e","6","4",",","Q","Q","=","=">>
not_base64 == <<"%","%">>

Images == {jpeg_dataurl, not_base64}

\* String.prototype.split(',')[1]: what lies between the first and the second comma
RECURSIVE upToComma(_)
upToComma(s) ==
    IF s = <<>> \/ Head(s) = "," THEN <<>> ELSE <<Head(s)>> \o upToComma(Tail(s))

RECURSIVE afterComma(_)
afterComma(s) ==
    IF s = <<>> THEN <<>> ELSE IF Head(s) = "," THEN Tail(s) ELSE afterComma(Tail(s))

Base64Chars ==
    {"A","B","C","D","E","F","G","H","I","J","K","L","M",
     "N","O","P","Q","R","S","T","U","V","W","X","Y","Z",
     "a","b","c","d","e","f","g","h","i","j","k","l","m",
     "n","o","p","q","r","s","t","u","v","w","x","y","z",
     "0","1","2","3","4","5","6","7","8","9","+","/","="}

\* atob throws on a character outside the base64 alphabet
atobThrows(base64Data) == \E i \in DOMAIN base64Data : base64Data[i] \notin Base64Chars

\* base64ToBlob: the bytes behind the data URL prefix, or null when atob throws
base64ToBlob(base64) ==
    LET base64Data == IF includes(base64, <<",">>) THEN upToComma(afterComma(base64))
                      ELSE base64
    IN  IF atobThrows(base64Data) THEN NULL ELSE Some(base64Data)

\* a token test that never finds the token missing
tokenMissing_never == FALSE

\* !this.HF_TOKEN || this.HF_TOKEN === ''
tokenMissing == hfToken = ""

msgTokenMissing == "Hugging Face token not configured. Please add VITE_HUGGINGFACE_TOKEN to your environment variables."
msgApiError == "Hugging Face API error: "
msgAnalysisFailed == "AI face analysis failed. Please check your Hugging Face token and try again."
msgPopFailed == "Failed to generate 3D pop"

\* JSON values a response body can parse to
jsonNull == [type |-> "null", items |-> <<>>]
jsonObject == [type |-> "object", items |-> <<>>]
jsonEmptyString == [type |-> "string", items |-> <<>>]
jsonArray(items) == [type |-> "array", items |-> items]

\* an entry of the list the model answers with; an entry may lack its label
labelled(label) == [label |-> Some(label)]
unlabelled == [label |-> NULL]

\* what fetch can settle with: a network error, a status, a body
Responses ==
    {[network |-> FALSE, ok |-> FALSE, json |-> NULL],
     [network |-> TRUE, ok |-> FALSE, json |-> NULL],
     [network |-> TRUE, ok |-> TRUE, json |-> NULL],
     [network |-> TRUE, ok |-> TRUE, json |-> Some(jsonNull)],
     [network |-> TRUE, ok |-> TRUE, json |-> Some(jsonObject)],
     [network |-> TRUE, ok |-> TRUE, json |-> Some(jsonEmptyString)],
     [network |-> TRUE, ok |-> TRUE, json |-> Some(jsonArray(<<>>))],
     [network |-> TRUE, ok |-> TRUE, json |-> Some(jsonArray(<<unlabelled>>))],
     [network |-> TRUE, ok |-> TRUE,
      json |-> Some(jsonArray(<<labelled(<<"t","a","b","b","y">>)>>))],
     [network |-> TRUE, ok |-> TRUE,
      json |-> Some(jsonArray(<<labelled(<<"f","a","c","e">>),
                                labelled(<<"A","n","g","r","y">>)>>))],
     [network |-> TRUE, ok |-> TRUE,
      json |-> Some(jsonArray(<<labelled(<<"g","r","i","n">>),
                                labelled(<<"s","h","o","c","k">>)>>))]}

\* callHuggingFaceAPI after its fetch settled: the parsed body, or the cause
\* of the error it throws (fetch rejected, !response.ok, response.json() rejected)
callHuggingFaceAPI(response) ==
    IF ~response.network THEN [body |-> NULL, cause |-> "transportFailure"]
    ELSE IF ~response.ok THEN [body |-> NULL, cause |-> "transportFailure"]
    ELSE IF response.json = NULL THEN [body |-> NULL, cause |-> "invalidResponse"]
    ELSE [body |-> response.json, cause |-> "none"]

personWords ==
    {<<"p","e","r","s","o","n">>,
     <<"h","u","m","a","n">>,
     <<"f","a","c","e">>,
     <<"p","o","r","t","r","a","i","t">>,
     <<"s","e","l","f","i","e">>}
smileWords ==
    {<<"s","m","i","l","e">>,
     <<"g","r","i","n">>,
     <<"h","a","p","p","y">>,
     <<"l","a","u","g","h","i","n","g">>}
seriousWords ==
    {<<"s","e","r","i","o","u","s">>,
     <<"s","t","e","r","n">>,
     <<"f","r","o","w","n">>,
     <<"a","n","g","r","y">>}
surpriseWords ==
    {<<"s","u","r","p","r","i","s","e">>,
     <<"s","h","o","c","k">>,
     <<"a","m","a","z","e","d">>}

\* labels.some(label => words.includes(label.toLowerCase())): "true", "false",
\* or "throw" when it comes to a label that is undefined
RECURSIVE some(_, _)
some(labels, words) ==
    IF labels = <<>> THEN "false"
    ELSE IF Head(labels) = NULL THEN "throw"
    ELSE IF toLowerCase(The(Head(labels))) \in words THEN "true"
    ELSE some(Tail(labels), words)

emotionNames == <<"happy", "sad", "angry", "surprised", "fearful", "disgusted", "neutral">>

styleNames == <<"casual", "formal", "artistic", "sporty">>

Range(seq) == {seq[i] : i \in DOMAIN seq}

\* a random source that reaches 1.5
Random_beyondOne == {0, 5, 15}

\* Math.random(), in tenths: 0.0, 0.5 or 0.9 (it stays under 1)
Random == {0, 5, 9}

\* the values Math.random() returns during one call of
\* convertImageAnalysisToFaceAnalysis, by the component they go into: one
\* value for the emotions against one for the style
Draws ==
    {[n \in Range(emotionNames) \cup Range(styleNames) |->
         IF n \in Range(emotionNames) THEN e ELSE s] : e \in Random, s \in Random}

\* convertImageAnalysisToFaceAnalysis with the draws r: the FaceAnalysis it
\* returns (its emotions and style), or null when it throws a TypeError
convertImageAnalysisToFaceAnalysis(apiResult, r) ==
    LET labels == IF apiResult.type = "array"
                  THEN [i \in DOMAIN apiResult.items |-> apiResult.items[i].label]
                  ELSE <<>>
        mapThrows == apiResult.type \notin {"null", "array"}
        hasPerson == some(labels, personWords)
        hasSmile == some(labels, smileWords)
        hasSerious == some(labels, seriousWords)
        hasSurprise == some(labels, surpriseWords)
    IN  IF mapThrows \/ "throw" \in {hasPerson, hasSmile, hasSerious, hasSurprise}
        THEN NULL
        ELSE Some([emotions |->
                     [happy |-> IF hasSmile = "true" THEN 700 + r.happy * 30
                                ELSE r.happy * 50,
                      sad |-> IF hasSerious = "true" THEN 300 + r.sad * 40
                              ELSE r.sad * 20,
                      angry |-> IF hasSerious = "true" THEN 200 + r.angry * 30
                                ELSE r.angry * 15,
                      surprised |-> IF hasSurprise = "true" THEN 600 + r.surprised * 30
                                    ELSE r.surprised * 30,
                      fearful |-> r.fearful * 20,
                      disgusted |-> r.disgusted * 10,
                      neutral |-> IF hasPerson = "true" THEN 400 + r.neutral * 40
                                  ELSE r.neutral * 30],
                   style |->
                     [casual |-> r.casual * 100, formal |-> r.formal * 100,
                      artistic |-> r.artistic * 100, sporty |-> r.sporty * 100]])

\* simulateFaceAnalysis, with Math.random() at 0.5
simulateFaceAnalysis ==
    [emotions |-> [happy |-> 500, sad |-> 100, angry |-> 50, surprised |-> 150,
                   fearful |-> 25, disgusted |-> 25, neutral |-> 250],
     style |-> [casual |-> 500, formal |-> 500, artistic |-> 500, sporty |-> 500]]

Min(a, b) == IF a < b THEN a ELSE b

\* Object.entries(scores).reduce((a, b) => scores[a] > scores[b] ? a : b)[0],
\* a the accumulator and rest the entries still to come
RECURSIVE reduceEntries(_, _, _)
reduceEntries(scores, a, rest) ==
    IF rest = <<>> THEN a
    ELSE reduceEntries(scores,
                       IF scores[a] > scores[Head(rest)] THEN a ELSE Head(rest),
                       Tail(rest))

dominantEmotion(analysis) ==
    reduceEntries(analysis.emotions, Head(emotionNames), Tail(emotionNames))

dominantStyle(analysis) ==
    reduceEntries(analysis.style, Head(styleNames), Tail(styleNames))

\* the personality scores with friendliness rising with anger
personality_angryFriendly(analysis) ==
    LET emotions == analysis.emotions
    IN  [energy |-> Min(1000, emotions.happy + emotions.surprised
                              + (emotions.fearful * 5) \div 10),
         friendliness |-> Min(1000, emotions.happy + emotions.angry
                                    + (emotions.neutral * 3) \div 10),
         creativity |-> analysis.style.artistic + (emotions.surprised * 4) \div 10,
         confidence |-> Min(1000, emotions.neutral + emotions.happy
                                  + (1000 - emotions.fearful))]

\* the personality scores, in tenths
personality(analysis) ==
    LET emotions == analysis.emotions
    IN  [energy |-> Min(1000, emotions.happy + emotions.surprised
                              + (emotions.fearful * 5) \div 10),
         friendliness |-> Min(1000, emotions.happy + (1000 - emotions.angry)
                                    + (emotions.neutral * 3) \div 10),
         creativity |-> analysis.style.artistic + (emotions.surprised * 4) \div 10,
         confidence |-> Min(1000, emotions.neutral + emotions.happy
                                  + (1000 - emotions.fearful))]

generateAccessoriesFromStyle(style) ==
    CASE style = "casual" -> <<"hat", "watch", "bracelet">>
      [] style = "formal" -> <<"glasses", "watch", "tie">>
      [] style = "artistic" -> <<"glasses", "earrings", "necklace">>
      [] style = "sporty" -> <<"hat", "watch", "headband">>
      [] OTHER -> <<"glasses", "watch">>

generateSpecialFeaturesFromEmotion(emotion) ==
    CASE emotion = "happy" -> <<"sparkly eyes", "dimples", "bright smile">>
      [] emotion = "sad" -> <<"expressive eyes", "gentle features">>
      [] emotion = "angry" -> <<"strong eyebrows", "determined look">>
      [] emotion = "surprised" -> <<"wide eyes", "expressive eyebrows">>
      [] emotion = "fearful" -> <<"gentle eyes", "soft features">>
      [] emotion = "disgusted" -> <<"distinctive nose", "strong features">>
      [] emotion = "neutral" -> <<"balanced features", "calm expression">>
      [] OTHER -> <<"unique smile", "expressive eyes">>

\* createPopCharacteristics (the four fields it copies from the analysis,
\* faceShape, eyeColor, hairColor and hairStyle, are left out)
createPopCharacteristics(analysis) ==
    [personality |-> personality(analysis),
     style |-> dominantStyle(analysis),
     accessories |-> generateAccessoriesFromStyle(dominantStyle(analysis)),
     specialFeatures |-> generateSpecialFeaturesFromEmotion(dominantEmotion(analysis))]

\* createPopImagePrompt destructures personality, style and features, and
\* calls features.includes: a TypeError when the record has no such field
createPopImagePromptThrows(popCharacteristics) ==
    "features" \notin DOMAIN popCharacteristics

\* createPopStyleImage: the canvas re-encodes the image it drew over
createPopStyleImage(originalImage, popCharacteristics) ==
    <<"c","a","n","v","a","s",":">> \o originalImage

\* generatePopImage: the string its promise resolves to; every throw inside
\* its try ends in the catch, which returns imageData
generatePopImage(imageData, popCharacteristics) ==
    IF tokenMissing THEN imageData
    ELSE IF base64ToBlob(imageData) = NULL THEN imageData
    ELSE IF createPopImagePromptThrows(popCharacteristics) THEN imageData
    ELSE createPopStyleImage(imageData, popCharacteristics)

idleInvocation ==
    [op |-> "none", pc |-> "idle", imageData |-> <<>>, fetches |-> <<>>,
     response |-> NULL, error |-> NULL, popImageUrl |-> NULL]

\* a catch that answers with a simulated analysis instead of an error
analyzeFaceCatch_simulated == [faceAnalysis |-> Some(simulateFaceAnalysis), error |-> NULL]

\* analyzeFace's catch: whatever was thrown, it throws one Error
analyzeFaceCatch == [faceAnalysis |-> NULL, error |-> Some(msgAnalysisFailed)]

\* what analyzeFace settles with, given the cause of a throw inside its try
\* ("none" when nothing threw) and the value it would return
analyzeFaceSettles(cause, value) ==
    IF cause # "none" THEN analyzeFaceCatch
    ELSE [faceAnalysis |-> value, error |-> NULL]

\* the call after analyzeFace settled.  analyzeFace itself is settled then.
\* generate3DPop rethrows in its catch, or goes on into generate3DModel up to
\* its fetch.
afterAnalyzeFace(inv, settled) ==
    IF inv.op = "analyzeFace"
    THEN [inv EXCEPT !.pc = "settled", !.error = settled.error]
    ELSE IF settled.error # NULL \/ tokenMissing \/ base64ToBlob(inv.imageData) = NULL
    THEN [inv EXCEPT !.pc = "settled", !.error = Some(msgPopFailed)]
    ELSE [inv EXCEPT !.pc = "generate3DModel.fetch",
                     !.fetches = Append(@, "generate3DModel")]

\* the errors analyzeFace's callers have received, each with what caused it
logThrown(cause, settled) ==
    IF settled.error = NULL THEN thrown
    ELSE thrown \cup {[cause |-> cause, message |-> The(settled.error)]}

\* a call of op with imageData: analyzeFace runs up to its fetch, or throws
\* before it (no token, or atob refuses the image)
called(op, imageData) ==
    LET cause == IF tokenMissing THEN "unauthenticated"
                 ELSE IF base64ToBlob(imageData) = NULL THEN "invalidInput"
                 ELSE "none"
        inv == [idleInvocation EXCEPT !.op = op, !.imageData = imageData]
        settled == analyzeFaceSettles(cause, NULL)
    IN  IF cause = "none"
        THEN [invocation |-> [inv EXCEPT !.pc = "analyzeFace.fetch",
                                         !.fetches = <<"analyzeFace">>],
              faceAnalysis |-> NULL,
              thrown |-> thrown]
        ELSE [invocation |-> afterAnalyzeFace(inv, settled),
              faceAnalysis |-> settled.faceAnalysis,
              thrown |-> logThrown(cause, settled)]

AnalyzeFaceCalled(imageData) ==
    /\ invocation.pc \in {"idle", "settled"}
    /\ invocation' = called("analyzeFace", imageData).invocation
    /\ faceAnalysis' = called("analyzeFace", imageData).faceAnalysis
    /\ thrown' = called("analyzeFace", imageData).thrown
    /\ characteristics' = NULL
    /\ UNCHANGED <<flow, local, hfToken>>

Generate3DPopCalled(imageData) ==
    /\ invocation.pc \in {"idle", "settled"}
    /\ invocation' = called("generate3DPop", imageData).invocation
    /\ faceAnalysis' = called("generate3DPop", imageData).faceAnalysis
    /\ thrown' = called("generate3DPop", imageData).thrown
    /\ characteristics' = NULL
    /\ UNCHANGED <<flow, local, hfToken>>

\* analyzeFace after its await on callHuggingFaceAPI
AnalyzeFaceFetchSettles ==
    \E response \in Responses : \E r \in Draws :
        LET api == callHuggingFaceAPI(response)
            value == IF api.body = NULL THEN NULL
                     ELSE convertImageAnalysisToFaceAnalysis(The(api.body), r)
            cause == IF api.body = NULL THEN api.cause
                     ELSE IF value = NULL THEN "invalidResponse"
                     ELSE "none"
            settled == analyzeFaceSettles(cause, value)
        IN  /\ invocation.pc = "analyzeFace.fetch"
            /\ invocation' =
                 afterAnalyzeFace([invocation EXCEPT !.response = Some(response)],
                                  settled)
            /\ faceAnalysis' = settled.faceAnalysis
            /\ thrown' = logThrown(cause, settled)
            /\ UNCHANGED <<flow, local, hfToken, characteristics>>

\* generate3DModel after its await on callHuggingFaceAPI: a throw ends in
\* generate3DPop's catch, a body (which it does not read) in its 3 s wait
Generate3DModelFetchSettles ==
    \E response \in Responses :
        /\ invocation.pc = "generate3DModel.fetch"
        /\ invocation' =
             IF callHuggingFaceAPI(response).body = NULL
             THEN [invocation EXCEPT !.pc = "settled", !.error = Some(msgPopFailed)]
             ELSE [invocation EXCEPT !.pc = "generate3DModel.timeout"]
        /\ UNCHANGED <<flow, local, hfToken, thrown, faceAnalysis, characteristics>>

\* generate3DPop after generate3DModel's wait: createPopCharacteristics and
\* generatePopImage, then its return
Generate3DModelTimeout ==
    LET popCharacteristics == createPopCharacteristics(The(faceAnalysis))
    IN  /\ invocation.pc = "generate3DModel.timeout"
        /\ characteristics' = Some(popCharacteristics)
        /\ invocation' =
             [invocation EXCEPT !.pc = "settled",
                !.popImageUrl = Some(generatePopImage(invocation.imageData,
                                                      popCharacteristics))]
        /\ UNCHANGED <<flow, local, hfToken, thrown, faceAnalysis>>

InitService ==
    /\ FlowNotStarted
    /\ LocalNotStarted
    /\ hfToken \in Tokens
    /\ invocation = idleInvocation
    /\ thrown = {}
    /\ faceAnalysis = NULL
    /\ characteristics = NULL

NextService ==
    \/ \E imageData \in Images : AnalyzeFaceCalled(imageData)
    \/ \E imageData \in Images : Generate3DPopCalled(imageData)
    \/ AnalyzeFaceFetchSettles
    \/ Generate3DModelFetchSettles
    \/ Generate3DModelTimeout

SpecService == InitService /\ [][NextService]_vars

-----------------------------------------------------------------------------
(* createPopCharacteristics on its own, over a range of analyses *)

\* the values of an emotion or style component: 0.0, 50.0 and 100.0
Levels == {0, 500, 1000}

\* an analysis between the levels: happy 80.0, surprised 40.0, neutral 10.0
smiling ==
    [happy |-> 800, sad |-> 0, angry |-> 0, surprised |-> 400,
     fearful |-> 0, disgusted |-> 0, neutral |-> 100]

Analyses ==
    {[emotions |-> e, style |-> s] :
        e \in [Range(emotionNames) -> Levels] \cup {smiling},
        s \in [Range(styleNames) -> {0, 1000}]}

InitDeriver ==
    /\ FlowNotStarted
    /\ LocalNotStarted
    /\ hfToken = ""
    /\ invocation = idleInvocation
    /\ thrown = {}
    /\ faceAnalysis \in {Some(analysis) : analysis \in Analyses}
    /\ characteristics = NULL

CreatePopCharacteristics ==
    /\ faceAnalysis # NULL
    /\ characteristics = NULL
    /\ characteristics' = Some(createPopCharacteristics(The(faceAnalysis)))
    /\ UNCHANGED <<flow, local, hfToken, invocation, thrown, faceAnalysis>>

NextDeriver == CreatePopCharacteristics

SpecDeriver == InitDeriver /\ [][NextDeriver]_vars

-----------------------------------------------------------------------------
(* LocalFaceAnalysis.  A number is NaN or a quotient of two integers, and    *)
(* numbers are compared as quotients.  The doubles of the code compare the  *)
(* same way for the images below, whose pixel sums are exact.               *)

NaN == [nan |-> TRUE, num |-> 0, den |-> 1]

\* num / den; 0 / 0 is NaN, and no other division by zero occurs
Quotient(num, den) ==
    IF den = 0 THEN NaN ELSE [nan |-> FALSE, num |-> num, den |-> den]

\* x < p / q and x > p / q, both false of NaN
Less(x, p, q) == ~x.nan /\ x.num * q < p * x.den

Greater(x, p, q) == ~x.nan /\ x.num * q > p * x.den

\* x * k
Times(x, k) == IF x.nan THEN NaN ELSE [x EXCEPT !.num = @ * k]

\* a minimum that always answers its first argument
mathMin_uncapped(x, p, q) == x

\* Math.min(x, p / q), which is NaN of NaN
mathMin(x, p, q) ==
    IF x.nan THEN NaN ELSE IF Less(x, p, q) THEN x ELSE Quotient(p, q)

Max(a, b) == IF a > b THEN a ELSE b

\* the sum of the first n values
RECURSIVE Sum(_, _)
Sum(values, n) == IF n = 0 THEN 0 ELSE values[n] + Sum(values, n - 1)

\* isSkinTone with a red of 95 counted as reddish
isSkinTone_inclusive(r, g, b) ==
    LET isReddish == r >= 95 /\ r < 255
        isGreenish == g > 40 /\ g < 255
        isBlueish == b > 20 /\ b < 255
        hasSkintonePattern == r > g /\ g > b
        rgRatio == Quotient(r, g + 1)
        rbRatio == Quotient(r, b + 1)
    IN  /\ isReddish /\ isGreenish /\ isBlueish /\ hasSkintonePattern
        /\ Greater(rgRatio, 1, 1) /\ Less(rgRatio, 5, 2)
        /\ Greater(rbRatio, 6, 5) /\ Less(rbRatio, 3, 1)

isSkinTone(r, g, b) ==
    LET isReddish == r > 95 /\ r < 255
        isGreenish == g > 40 /\ g < 255
        isBlueish == b > 20 /\ b < 255
        hasSkintonePattern == r > g /\ g > b
        rgRatio == Quotient(r, g + 1)
        rbRatio == Quotient(r, b + 1)
    IN  /\ isReddish /\ isGreenish /\ isBlueish /\ hasSkintonePattern
        /\ Greater(rgRatio, 1, 1) /\ Less(rgRatio, 5, 2)
        /\ Greater(rbRatio, 6, 5) /\ Less(rbRatio, 3, 1)

\* (max - min) / max || 0 in thousandths, exact when max divides 1000 * (max - min)
pixelSaturation(r, g, b) ==
    LET max == Max(r, Max(g, b))
        min == Min(r, Min(g, b))
    IN  IF max = 0 THEN 0 ELSE ((max - min) * 1000) \div max

\* a face is detected between 15% and 85% of skin, both included
faceDetected_inclusive(skinToneRatio) ==
    ~Less(skinToneRatio, 15, 100) /\ ~Greater(skinToneRatio, 85, 100) /\ ~skinToneRatio.nan

faceDetected(skinToneRatio) ==
    Greater(skinToneRatio, 15, 100) /\ Less(skinToneRatio, 85, 100)

\* an age that drifts with the number of estimates made so far
estimateAge_drifting(brightness, saturation, skinRatio) ==
    LET byBrightness == IF Less(brightness, 100, 1) THEN 10
                        ELSE IF Greater(brightness, 180, 1) THEN -5 ELSE 0
        bySaturation == IF Less(saturation, 3, 10) THEN 5
                        ELSE IF Greater(saturation, 6, 10) THEN -5 ELSE 0
    IN  Max(18, Min(65, 30 + byBrightness + bySaturation + Cardinality(estimates)))

\* Math.round of the integer it is given is that integer
estimateAge(brightness, saturation, skinRatio) ==
    LET byBrightness == IF Less(brightness, 100, 1) THEN 10
                        ELSE IF Greater(brightness, 180, 1) THEN -5 ELSE 0
        bySaturation == IF Less(saturation, 3, 10) THEN 5
                        ELSE IF Greater(saturation, 6, 10) THEN -5 ELSE 0
    IN  Max(18, Min(65, 30 + byBrightness + bySaturation))

estimateGender(saturation, brightness) ==
    IF Greater(saturation, 1, 2) /\ Greater(brightness, 150, 1) THEN "female"
    ELSE IF Less(saturation, 4, 10) THEN "male"
    ELSE "unknown"

\* analyzeImageData of the pixels data, each pixel <<r, g, b, a>>
analyzeImageData(data) ==
    LET totalPixels == Len(data)
        skinTonePixels ==
            Sum([i \in DOMAIN data |->
                    IF isSkinTone(data[i][1], data[i][2], data[i][3]) THEN 1 ELSE 0],
                totalPixels)
        avgBrightness ==
            Quotient(Sum([i \in DOMAIN data |-> data[i][1] + data[i][2] + data[i][3]],
                         totalPixels),
                     3 * totalPixels)
        avgSaturation ==
            Quotient(Sum([i \in DOMAIN data |->
                             pixelSaturation(data[i][1], data[i][2], data[i][3])],
                         totalPixels),
                     1000 * totalPixels)
        skinToneRatio == Quotient(skinTonePixels, totalPixels)
    IN  [faceDetected |-> faceDetected(skinToneRatio),
         estimatedAge |-> estimateAge(avgBrightness, avgSaturation, skinToneRatio),
         estimatedGender |-> estimateGender(avgSaturation, avgBrightness),
         confidence |-> mathMin(Times(skinToneRatio, 2), 3, 4)]

\* analyzeFace's answer when analyzeImageData detected no face
noFaceDetected ==
    [age |-> 30, gender |-> "unknown", confidence |-> Quotient(0, 1),
     faceDetected |-> FALSE]

\* an answer that hands on what analyzeImageData computed, face or no face
faceAnalysisResult_undiscarded(analysis) ==
    [age |-> analysis.estimatedAge, gender |-> analysis.estimatedGender,
     confidence |-> analysis.confidence, faceDetected |-> analysis.faceDetected]

\* analyzeFace's answer from the analysis of the pixels
faceAnalysisResult(analysis) ==
    IF analysis.faceDetected
    THEN [age |-> analysis.estimatedAge, gender |-> analysis.estimatedGender,
          confidence |-> analysis.confidence, faceDetected |-> TRUE]
    ELSE noFaceDetected

\* a catch that answers like analyzeFromFilename
failedAnalysis_fromFilename ==
    [age |-> 25, gender |-> "unknown", confidence |-> Quotient(3, 10),
     faceDetected |-> FALSE]

\* analyzeFace's catch
failedAnalysis ==
    [age |-> 30, gender |-> "unknown", confidence |-> Quotient(0, 1),
     faceDetected |-> FALSE]

digits == <<"0", "1", "2", "3", "4", "5", "6", "7", "8", "9">>

\* parseInt of a run of digits
parseInt(s) ==
    LET value(c) == (CHOOSE i \in DOMAIN digits : digits[i] = c) - 1
    IN  IF Len(s) = 1 THEN value(s[1]) ELSE 10 * value(s[1]) + value(s[2])

ageSuffixes ==
    {<<"y","r">>, <<"y","e","a","r">>, <<"y","o">>, <<"a","g","e">>}

\* /(\d{1,2})(yr|year|yo|age)/ matches at i with d digits
matchesAt(s, i, d) ==
    /\ i + d - 1 <= Len(s)
    /\ \A j \in i..(i + d - 1) : s[j] \in Range(digits)
    /\ \E suffix \in ageSuffixes :
          /\ i + d + Len(suffix) - 1 <= Len(s)
          /\ SubSeq(s, i + d, i + d + Len(suffix) - 1) = suffix

\* lower.match(...)?.[1]: the digits of the leftmost match, two before one
ageMatch(lower) ==
    LET starts == {i \in DOMAIN lower : matchesAt(lower, i, 2) \/ matchesAt(lower, i, 1)}
    IN  IF starts = {} THEN NULL
        ELSE LET i == CHOOSE i \in starts : \A j \in starts : i <= j
                 d == IF matchesAt(lower, i, 2) THEN 2 ELSE 1
             IN  Some(SubSeq(lower, i, i + d - 1))

femaleWords == {<<"f","e","m","a","l","e">>, <<"w","o","m","a","n">>, <<"g","i","r","l">>}

maleWords == {<<"m","a","l","e">>, <<"m","a","n">>, <<"b","o","y">>}

\* the gender with the male words tested first
filenameGender_maleFirst(lower) ==
    IF \E word \in maleWords : includes(lower, word) THEN "male"
    ELSE IF \E word \in femaleWords : includes(lower, word) THEN "female"
    ELSE "unknown"

filenameGender(lower) ==
    IF \E word \in femaleWords : includes(lower, word) THEN "female"
    ELSE IF \E word \in maleWords : includes(lower, word) THEN "male"
    ELSE "unknown"

analyzeFromFilename(filename) ==
    LET lower == toLowerCase(filename)
        ageMatched == ageMatch(lower)
    IN  [age |-> IF ageMatched = NULL THEN 25 ELSE parseInt(The(ageMatched)),
         gender |-> filenameGender(lower),
         confidence |-> Quotient(3, 10),
         faceDetected |-> FALSE]

-----------------------------------------------------------------------------
(* The functions of LocalFaceAnalysis on their own, over a range of         *)
(* arguments                                                                *)

\* channel values around the thresholds of isSkinTone
ChannelValues ==
    {0, 20, 21, 40, 41, 49, 50, 59, 60, 95, 96, 99, 100, 120, 150, 151, 200, 254, 255}

Pixels == ChannelValues \X ChannelValues \X ChannelValues

skinPixel == <<200, 150, 100, 255>>
blackPixel == <<0, 0, 0, 255>>
whitePixel == <<255, 255, 255, 255>>
bluePixel == <<0, 0, 255, 255>>

\* an image of n pixels: k of skin, then the others of one colour
filled(k, n, other) == [i \in 1..n |-> IF i <= k THEN skinPixel ELSE other]

\* the sizes of the images: none, one, two and twenty pixels
ImageSizes == {0, 1, 2, 20}

PixelImages ==
    {filled(c[1], c[2], c[3]) :
        c \in {c \in (0..20) \X ImageSizes \X {blackPixel, whitePixel, bluePixel} :
                 c[1] <= c[2]}}

Filenames ==
    {<<"o","l","d","_","m","a","n",".","j","p","g">>,
     <<"T","e","e","n",".","p","n","g">>,
     <<"w","o","m","a","n","_","4","2","y","o">>,
     <<"7","y","r","_","g","i","r","l">>,
     <<"1","2","3","y","e","a","r","_","b","o","y">>,
     <<"h","u","m","a","n">>,
     <<"f","e","m","a","l","e","_","5","a","g","e">>,
     <<"m","A","n","_","3","0","y","o","_","5","y","r">>,
     <<"p","h","o","t","o">>,
     <<"x","9","_","y","o">>,
     <<"s","h","a","m","a","n","9","9"," ","y","r">>}

Arguments ==
    {[noArgument EXCEPT !.fn = "isSkinTone", !.pixel = pixel] : pixel \in Pixels}
    \cup {[noArgument EXCEPT !.fn = "analyzeImageData", !.data = data] : data \in PixelImages}
    \cup {[noArgument EXCEPT !.fn = "analyzeFromFilename", !.filename = filename] :
            filename \in Filenames}

InitFunctions ==
    /\ FlowNotStarted
    /\ hfToken = ""
    /\ invocation = idleInvocation
    /\ thrown = {}
    /\ faceAnalysis = NULL
    /\ characteristics = NULL
    /\ localAnalysis = idleLocalAnalysis
    /\ objectURLs = EmptyBag
    /\ estimates = {}
    /\ argument \in Arguments
    /\ returned = NULL

IsSkinTone ==
    /\ argument.fn = "isSkinTone"
    /\ returned = NULL
    /\ returned' = Some(isSkinTone(argument.pixel[1], argument.pixel[2],
                                   argument.pixel[3]))
    /\ UNCHANGED <<flow, service, localAnalysis, objectURLs, estimates, argument>>

\* analyzeFace from the pixels on: analyzeImageData and the answer made of it
AnalyzeImageData ==
    /\ argument.fn = "analyzeImageData"
    /\ returned = NULL
    /\ returned' = Some([analysis |-> analyzeImageData(argument.data),
                         result |-> faceAnalysisResult(analyzeImageData(argument.data))])
    /\ UNCHANGED <<flow, service, localAnalysis, objectURLs, estimates, argument>>

AnalyzeFromFilename ==
    /\ argument.fn = "analyzeFromFilename"
    /\ returned = NULL
    /\ returned' = Some(analyzeFromFilename(argument.filename))
    /\ UNCHANGED <<flow, service, localAnalysis, objectURLs, estimates, argument>>

NextFunctions ==
    \/ IsSkinTone
    \/ AnalyzeImageData
    \/ AnalyzeFromFilename

SpecFunctions == InitFunctions /\ [][NextFunctions]_vars

-----------------------------------------------------------------------------
(* LocalFaceAnalysis.analyzeFace, one call at a time, suspended at its      *)
(* awaits; and the photo step of the flow, whose render makes an object URL *)
(* for its preview                                                          *)

\* the files analyzeFace is given: one the browser cannot decode, one that
\* decodes to an image of no size (drawing or reading it back throws), one
\* with a face and one without
Files ==
    {[loads |-> FALSE, data |-> <<>>],
     [loads |-> TRUE, data |-> <<>>],
     [loads |-> TRUE, data |-> filled(10, 20, whitePixel)],
     [loads |-> TRUE, data |-> filled(2, 20, bluePixel)]}

\* URL.createObjectURL and URL.revokeObjectURL, by who created the URL
createObjectURL(by) == objectURLs (+) SetToBag({by})

revokeObjectURL(by) == objectURLs (-) SetToBag({by})

\* an initialize that takes no notice of a load in progress
loadingInProgress_ignored == FALSE

\* initialize's second test: if (this.loadingPromise) return this.loadingPromise
loadingInProgress == localAnalysis.loadingPromise

\* initialize up to its return or its await: nothing when the models are
\* loaded or a load is in progress; else loadingPromise = this.loadModels()
\* and its body is suspended at the await (own tells whether it ran that far)
initialize(la) ==
    IF la.modelsLoaded \/ loadingInProgress
    THEN [la EXCEPT !.ownInitialize = FALSE]
    ELSE [la EXCEPT !.loadingPromise = TRUE, !.loadModels = @ + 1,
                    !.ownInitialize = TRUE]

\* analyzeFace up to the await that suspends it: on initialize when the
\* models are not loaded, else on fileToImage
LocalAnalyzeFaceCalled(file) ==
    /\ localAnalysis.pc \in {"idle", "settled"}
    /\ IF localAnalysis.modelsLoaded
       THEN /\ localAnalysis' =
                 [initialize(localAnalysis) EXCEPT
                     !.pc = "fileToImage", !.file = Some(file),
                     !.coldStart = FALSE, !.outcome = "none", !.result = NULL]
            /\ objectURLs' = createObjectURL("fileToImage")
       ELSE /\ localAnalysis' =
                 [initialize(localAnalysis) EXCEPT
                     !.pc = "initialize", !.file = Some(file),
                     !.coldStart = TRUE, !.outcome = "none", !.result = NULL]
            /\ UNCHANGED objectURLs
    /\ UNCHANGED <<flow, service, estimates, argument, returned>>

\* analyzeFace after its await on initialize: the body of initialize it ran
\* sets modelsLoaded (a promise it was handed sets nothing); then
\* fileToImage up to its promise, the object URL created and given to the image
ModelsLoaded ==
    /\ localAnalysis.pc = "initialize"
    /\ localAnalysis' =
         [localAnalysis EXCEPT
             !.modelsLoaded = IF localAnalysis.ownInitialize THEN TRUE ELSE @,
             !.ownInitialize = FALSE,
             !.pc = "fileToImage"]
    /\ objectURLs' = createObjectURL("fileToImage")
    /\ UNCHANGED <<flow, service, estimates, argument, returned>>

\* a call of initialize from outside analyzeFace, up to its return or await
InitializeCalled ==
    /\ localAnalysis.initializeCalls < MaxInitializeCalls
    /\ localAnalysis' =
         [initialize(localAnalysis) EXCEPT
             !.initializeCalls = @ + 1,
             !.initializing = IF initialize(localAnalysis).ownInitialize
                              THEN @ + 1 ELSE @,
             !.ownInitialize = localAnalysis.ownInitialize]
    /\ UNCHANGED <<flow, service, objectURLs, estimates, argument, returned>>

\* the body of such a call after its await: this.modelsLoaded = true
InitializeResumes ==
    /\ localAnalysis.initializing > 0
    /\ localAnalysis' = [localAnalysis EXCEPT !.modelsLoaded = TRUE,
                                              !.initializing = @ - 1]
    /\ UNCHANGED <<flow, service, objectURLs, estimates, argument, returned>>

\* img.onload: the URL is revoked; analyzeFace goes on to the canvas (context
\* is whether getContext gave one), reads the pixels back and analyzes them;
\* a throw on the way ends in its catch
ImageLoads ==
    \E context \in BOOLEAN :
        LET file == The(localAnalysis.file)
            outcome == IF ~context THEN "noContext"
                       ELSE IF file.data = <<>> THEN "noPixels"
                       ELSE "analyzed"
            result == IF outcome = "analyzed"
                      THEN faceAnalysisResult(analyzeImageData(file.data))
                      ELSE failedAnalysis
        IN  /\ localAnalysis.pc = "fileToImage"
            /\ file.loads
            /\ objectURLs' = revokeObjectURL("fileToImage")
            /\ localAnalysis' = [localAnalysis EXCEPT !.pc = "settled",
                                                      !.outcome = outcome,
                                                      !.result = Some(result)]
            /\ estimates' =
                 IF outcome = "analyzed"
                 THEN estimates \cup {[data |-> file.data,
                                       coldStart |-> localAnalysis.coldStart,
                                       result |-> result]}
                 ELSE estimates
            /\ UNCHANGED <<flow, service, argument, returned>>

\* img.onerror: the URL is revoked and fileToImage rejects, into the catch
ImageFails ==
    /\ localAnalysis.pc = "fileToImage"
    /\ ~The(localAnalysis.file).loads
    /\ objectURLs' = revokeObjectURL("fileToImage")
    /\ localAnalysis' = [localAnalysis EXCEPT !.pc = "settled",
                                              !.outcome = "loadError",
                                              !.result = Some(failedAnalysis)]
    /\ UNCHANGED <<flow, service, estimates, argument, returned>>

\* a render of the photo step with a photo chosen: the preview's src is
\* URL.createObjectURL(characterData.photo), evaluated anew at each render
PhotoPreviewRendered ==
    /\ currentStep = "photo"
    /\ characterData.photo # NULL
    /\ CopiesIn("preview", objectURLs) < MaxPreviews
    /\ objectURLs' = createObjectURL("preview")
    /\ UNCHANGED <<flow, service, localAnalysis, estimates, argument, returned>>

NextLocal ==
    \/ LoadingTimeout
    \/ \E photo \in Photos : HandlePhotoUpload(photo)
    \/ PhotoPreviewRendered
    \/ \E file \in Files : LocalAnalyzeFaceCalled(file)
    \/ ModelsLoaded
    \/ InitializeCalled
    \/ InitializeResumes
    \/ ImageLoads
    \/ ImageFails

SpecLocal == Init /\ [][NextLocal]_vars

-----------------------------------------------------------------------------
(* Properties of the flow *)

rendersInFlight == BagCardinality(renders)

analysesInFlight == BagCardinality(analyses)

defaultAttributes == [age |-> 25, height |-> 170, weight |-> 70]

editableAttributes ==
    [age |-> characterData.age, height |-> characterData.height,
     weight |-> characterData.weight]

\* C1: a session issues at most one render call and never has two in flight;
\* once the render button was used with a photo present, exactly one call was
\* issued, however often the button is triggered afterwards.
C1_RenderIssuedOnce ==
    /\ renderCalls <= 1
    /\ rendersInFlight <= 1
    /\ (cartoonGenerated /\ characterData.photo # NULL) => renderCalls = 1

\* the render call is outstanding and the button, triggered again, is disabled
C1_Witness ==
    /\ currentStep = "card"
    /\ rendersInFlight = 1
    /\ renderCalls = 1
    /\ renderButtonDisabled

\* C2: after a render call settled with a failure, the render button of the
\* confirmation step is enabled again.
C2_RetryEnabledAfterFailure ==
    (currentStep = "card" /\ renderResult = "failed" /\ rendersInFlight = 0)
        => ~renderButtonDisabled

\* C3: in step complete the session holds a render artifact.
C3_CompleteHoldsArtifact == currentStep = "complete" => cartoonImage # NULL

\* C4: after a render call that returned a failure the artifact is null and
\* the gallery was not and is not being handed a record; every record the
\* gallery is handed, and every save on its way, carries an artifact and a
\* non-empty name, and the session then holds an artifact.
C4_GalleryOnlyWithArtifact ==
    LET handed == gallery \cup (IF pendingSave = NULL THEN {} ELSE {The(pendingSave)})
    IN  /\ renderResult = "failed" => (cartoonImage = NULL /\ handed = {})
        /\ \A rec \in handed : rec.cartoonImage # NULL /\ rec.name # <<>>
        /\ handed # {} => cartoonImage # NULL
        /\ characterSaved => gallery # {}

\* the render call failed, and a save asked for now is refused
C4_Witness ==
    /\ renderResult = "failed"
    /\ rendersInFlight = 0
    /\ cartoonGenerated
    /\ saveRefused(cartoonImage, characterData.name)

\* C5: the step in which a rejected estimation is handled leaves the original
\* estimate and the editable attributes at age 25, height 170, weight 70, and
\* leaves the callback that moves the flow from photo to name scheduled.
C5_FailedEstimationSeedsDefaults ==
    [][AnalysisRejects =>
          /\ characterData'.aiGuesses = defaultAttributes
          /\ editableAttributes' = defaultAttributes
          /\ BagIn([fn |-> "nextStep", step |-> "photo"], timers')
          /\ BagCardinality(timers') = BagCardinality(timers) + 1
          /\ nextStep("photo") = "name"]_vars

\* the only estimation of a photo was rejected: the defaults are in place
\* and the step change is pending
C5_Witness ==
    /\ currentStep = "photo"
    /\ uploads = 1
    /\ analysesInFlight = 0
    /\ characterData.photo = Some(old_man_jpg)
    /\ characterData.aiGuesses = defaultAttributes
    /\ editableAttributes = defaultAttributes
    /\ BagIn([fn |-> "nextStep", step |-> "photo"], timers)

\* C6: with no credential configured, the estimate a supplied photo leaves
\* behind is the default one, age 25, height 170, weight 70.
C6_NoCredentialSeedsDefaults ==
    (hfToken = "" /\ characterData.photo # NULL /\ analysesInFlight = 0)
        => characterData.aiGuesses = defaultAttributes

\* C7: the editable attributes stay in the sliders' ranges.
C7_AttributesInRange ==
    /\ characterData.age \in AgeMin..AgeMax
    /\ characterData.height \in HeightMin..HeightMax
    /\ characterData.weight \in WeightMin..WeightMax

\* C8: once the flow is past the photo step the original estimate never changes.
C8_SnapshotImmutable ==
    [][currentStep \notin {"loading", "photo"}
          => characterData'.aiGuesses = characterData.aiGuesses]_vars

\* C9: at most one estimation or render call is outstanding at any time.
C9_OneAsyncOperation == analysesInFlight + rendersInFlight <= 1

\* C10: an estimation that settles after the flow left the photo step changes
\* no attribute and schedules no step change.
C10_StaleResultDiscarded ==
    [][(analysesInFlight' < analysesInFlight /\ currentStep # "photo")
          => (characterData' = characterData /\ timers' = timers)]_vars

\* C11: every change of the current step goes to the immediate successor in
\* the order loading, photo, name, age, measures, card, complete, and the
\* step never changes once it is complete.
C11_StepOnlyAdvances ==
    [][currentStep' # currentStep
          => /\ currentStep # "complete"
             /\ currentStep' = steps[indexOf(currentStep) + 1]]_vars

\* C17: when the render button's handler runs with the photo or the name
\* missing, it issues no render call and schedules no step change.
C17_RenderNeedsPhotoAndName ==
    [][(cartoonGenerated' /\ ~cartoonGenerated
          /\ (characterData.photo = NULL \/ trim(characterData.name) = <<>>))
          => (renders' = renders /\ renderCalls' = renderCalls
              /\ timers' = timers)]_vars

-----------------------------------------------------------------------------
(* Properties of HuggingFaceService *)

\* the fetches analyzeFace issued during the call
analyzeFaceFetches ==
    Cardinality({i \in DOMAIN invocation.fetches : invocation.fetches[i] = "analyzeFace"})

\* C12: with no credential configured, a call of analyzeFace or generate3DPop
\* issues no network request and is settled with an error, without a
\* FaceAnalysis and without an image.
C12_NoCredentialNoRequest ==
    hfToken = "" =>
        /\ invocation.fetches = <<>>
        /\ invocation.op # "none" =>
              /\ invocation.pc = "settled"
              /\ invocation.error # NULL
              /\ faceAnalysis = NULL
              /\ invocation.popImageUrl = NULL

\* generate3DPop was called with no credential and failed without a request
C12_Witness ==
    /\ hfToken = ""
    /\ invocation.op = "generate3DPop"
    /\ invocation.pc = "settled"
    /\ invocation.error = Some(msgPopFailed)
    /\ invocation.fetches = <<>>

\* C13: two failures of analyzeFace with different causes among
\* unauthenticated, transportFailure and invalidResponse reach the caller
\* with different errors.
C13_FailureReasonDistinguishesCause ==
    \A e1, e2 \in thrown :
        (/\ {e1.cause, e2.cause} \subseteq
                {"unauthenticated", "transportFailure", "invalidResponse"}
         /\ e1.cause # e2.cause)
            => e1.message # e2.message

\* C14: when analyzeFace's request succeeded with a body that parses to
\* something other than a list, the call fails and yields no FaceAnalysis.
C14_NonListResponseFails ==
    (/\ invocation.response # NULL
     /\ The(invocation.response).network
     /\ The(invocation.response).ok
     /\ The(invocation.response).json # NULL
     /\ The(The(invocation.response).json).type # "array")
        => (invocation.error # NULL /\ faceAnalysis = NULL)

\* C15: analyzeFace issues at most one request per call; when that request
\* fails the call is settled with an error after that one request and holds
\* no FaceAnalysis.
C15_OneRequestNoSubstitute ==
    /\ analyzeFaceFetches <= 1
    /\ (/\ invocation.response # NULL
        /\ callHuggingFaceAPI(The(invocation.response)).body = NULL)
          => /\ invocation.pc = "settled"
             /\ invocation.error # NULL
             /\ faceAnalysis = NULL
             /\ invocation.fetches = <<"analyzeFace">>

\* analyzeFace's one request came back with a non-success status and the
\* call failed
C15_Witness ==
    /\ invocation.op = "analyzeFace"
    /\ invocation.pc = "settled"
    /\ invocation.response = Some([network |-> TRUE, ok |-> FALSE, json |-> NULL])
    /\ invocation.fetches = <<"analyzeFace">>
    /\ invocation.error = Some(msgAnalysisFailed)
    /\ faceAnalysis = NULL

\* C16: the image a call of generate3DPop returns is never the unmodified
\* input photo.
C16_NoSubstituteImage ==
    invocation.popImageUrl # NULL
        => The(invocation.popImageUrl) # invocation.imageData

-----------------------------------------------------------------------------
(* Properties of createPopCharacteristics *)

\* the first name, in the order of names, whose score is the maximum
firstMaximum(scores, names) ==
    names[CHOOSE i \in DOMAIN names :
            /\ \A j \in DOMAIN names : scores[names[j]] <= scores[names[i]]
            /\ \A j \in 1..(i - 1) : scores[names[j]] < scores[names[i]]]

\* C18: the dominant emotion is the first component of maximum value in the
\* order happy, sad, angry, surprised, fearful, disgusted, neutral, and the
\* special features are those of that emotion.
C18_DominantEmotionFirstMaximum ==
    characteristics # NULL =>
        LET expected == firstMaximum(The(faceAnalysis).emotions, emotionNames)
        IN  /\ dominantEmotion(The(faceAnalysis)) = expected
            /\ The(characteristics).specialFeatures
                 = generateSpecialFeaturesFromEmotion(expected)

\* C19: the dominant style is the first component of maximum value in the
\* order casual, formal, artistic, sporty.
C19_DominantStyleFirstMaximum ==
    characteristics # NULL =>
        The(characteristics).style = firstMaximum(The(faceAnalysis).style, styleNames)

\* C20: each of the four personality scores lies in 0.0 .. 100.0.
C20_PersonalityInRange ==
    characteristics # NULL =>
        \A score \in {"energy", "friendliness", "creativity", "confidence"} :
            The(characteristics).personality[score] \in 0..1000

-----------------------------------------------------------------------------
(* Properties of the functions of LocalFaceAnalysis *)

\* the number of skin-tone pixels of an image
skinCount(data) ==
    Cardinality({i \in DOMAIN data : isSkinTone(data[i][1], data[i][2], data[i][3])})

\* C22: for every RGBA buffer, the empty one included, the estimate the local
\* analyzer returns has its age in 18..65 and its confidence in 0 .. 0.75
\* (a number, not NaN).
C22_EstimateInRange ==
    (argument.fn = "analyzeImageData" /\ returned # NULL) =>
        LET result == The(returned).result
        IN  /\ result.age \in 18..65
            /\ ~result.confidence.nan
            /\ result.confidence.num >= 0
            /\ 4 * result.confidence.num <= 3 * result.confidence.den

\* the empty buffer was analyzed
C22_Witness ==
    /\ argument.fn = "analyzeImageData"
    /\ argument.data = <<>>
    /\ returned # NULL

\* C23: faceDetected is true exactly when the skin-tone ratio lies strictly
\* between 0.15 and 0.85; a ratio of exactly 0.15 or 0.85 gives false.
C23_FaceDetectedStrictlyBetween ==
    (argument.fn = "analyzeImageData" /\ returned # NULL) =>
        LET total == Len(argument.data)
            skin == skinCount(argument.data)
            between == /\ total > 0
                       /\ 15 * total < 100 * skin
                       /\ 100 * skin < 85 * total
        IN  /\ The(returned).analysis.faceDetected <=> between
            /\ The(returned).result.faceDetected <=> between

\* an image with exactly 15% of skin was analyzed, and no face detected
C23_Witness ==
    /\ argument.fn = "analyzeImageData"
    /\ Len(argument.data) = 20
    /\ skinCount(argument.data) = 3
    /\ returned # NULL
    /\ ~The(returned).result.faceDetected

\* C27: analyzeFromFilename returns confidence 0.3 and faceDetected false;
\* the age is a number of one or two digits directly followed by yr, year,
\* yo or age when the name holds one, and 25 otherwise; the gender is female
\* when the name contains female, woman or girl, otherwise male when it
\* contains male, man or boy, otherwise unknown.  (The name in lower case.)
C27_FilenameFallback ==
    (argument.fn = "analyzeFromFilename" /\ returned # NULL) =>
        LET name == toLowerCase(argument.filename)
            result == The(returned)
            numbers == {parseInt(SubSeq(name, c[1], c[1] + c[2] - 1)) :
                          c \in {c \in (DOMAIN name) \X {1, 2} :
                                   matchesAt(name, c[1], c[2])}}
            has(word) == includes(name, word)
        IN  /\ result.confidence = Quotient(3, 10)
            /\ result.faceDetected = FALSE
            /\ IF numbers = {} THEN result.age = 25 ELSE result.age \in numbers
            /\ result.gender =
                 IF has(<<"f","e","m","a","l","e">>) \/ has(<<"w","o","m","a","n">>) \/ has(<<"g","i","r","l">>)
                 THEN "female"
                 ELSE IF has(<<"m","a","l","e">>) \/ has(<<"m","a","n">>) \/ has(<<"b","o","y">>)
                 THEN "male"
                 ELSE "unknown"

\* the name woman_42yo was analyzed: 42 and female, though it contains man
C27_Witness ==
    /\ argument.fn = "analyzeFromFilename"
    /\ argument.filename = <<"w","o","m","a","n","_","4","2","y","o">>
    /\ returned # NULL
    /\ The(returned).age = 42
    /\ The(returned).gender = "female"

\* C30: a pixel (R, G, B) is skin-tone exactly when R > G > B, 95 < R < 255,
\* 40 < G < 255, 20 < B < 255, 1.0 < R / (G + 1) < 2.5 and
\* 1.2 < R / (B + 1) < 3.0.
C30_SkinToneRule ==
    (argument.fn = "isSkinTone" /\ returned # NULL) =>
        LET R == argument.pixel[1]
            G == argument.pixel[2]
            B == argument.pixel[3]
        IN  The(returned) <=>
               /\ R > G /\ G > B
               /\ 95 < R /\ R < 255
               /\ 40 < G /\ G < 255
               /\ 20 < B /\ B < 255
               /\ G + 1 < R /\ 2 * R < 5 * (G + 1)
               /\ 6 * (B + 1) < 5 * R /\ R < 3 * (B + 1)

\* a skin-tone pixel was classified as one
C30_Witness ==
    /\ argument.fn = "isSkinTone"
    /\ argument.pixel = <<200, 150, 100>>
    /\ returned = Some(TRUE)

\* C31: the age estimate is 30, plus 10 if the mean brightness is below 100
\* or minus 5 if it is above 180, plus 5 if the mean saturation is below 0.3
\* or minus 5 if it is above 0.6, clamped to 18..65; the confidence is
\* min(2 * skinToneRatio, 0.75).  (Means and ratio of an image with pixels.)
C31_AgeAndConfidenceFormulas ==
    (argument.fn = "analyzeImageData" /\ returned # NULL /\ argument.data # <<>>) =>
        LET data == argument.data
            n == Len(data)
            brightness3 == Sum([i \in DOMAIN data |-> data[i][1] + data[i][2] + data[i][3]], n)
            saturation1000 ==
                Sum([i \in DOMAIN data |->
                        pixelSaturation(data[i][1], data[i][2], data[i][3])], n)
            age == 30
                   + (IF brightness3 < 300 * n THEN 10
                      ELSE IF brightness3 > 540 * n THEN -5 ELSE 0)
                   + (IF saturation1000 < 300 * n THEN 5
                      ELSE IF saturation1000 > 600 * n THEN -5 ELSE 0)
            confidence == The(returned).analysis.confidence
        IN  /\ The(returned).analysis.estimatedAge = Max(18, Min(65, age))
            /\ ~confidence.nan
            /\ IF 8 * skinCount(data) < 3 * n
               THEN confidence.num * n = 2 * skinCount(data) * confidence.den
               ELSE 4 * confidence.num = 3 * confidence.den

\* a dark, saturated image was analyzed: 30 + 10 - 5, and a confidence of
\* twice its share of skin
C31_Witness ==
    /\ argument.fn = "analyzeImageData"
    /\ argument.data = filled(2, 20, bluePixel)
    /\ returned # NULL
    /\ The(returned).analysis.estimatedAge = 35
    /\ The(returned).analysis.confidence = Quotient(4, 20)

\* C36: a result with faceDetected false is exactly age 30, gender unknown,
\* confidence 0, whatever was computed; a result with faceDetected true has a
\* confidence above 0.3 and at most 0.75.
C36_ResultByFaceDetected ==
    (argument.fn = "analyzeImageData" /\ returned # NULL) =>
        LET result == The(returned).result
        IN  IF result.faceDetected
            THEN /\ ~result.confidence.nan
                 /\ 10 * result.confidence.num > 3 * result.confidence.den
                 /\ 4 * result.confidence.num <= 3 * result.confidence.den
            ELSE result = [age |-> 30, gender |-> "unknown",
                           confidence |-> Quotient(0, 1), faceDetected |-> FALSE]

\* no face was detected in an image for which an age of 45 was computed, and
\* the result holds 30
C36_Witness ==
    /\ argument.fn = "analyzeImageData"
    /\ returned # NULL
    /\ ~The(returned).result.faceDetected
    /\ The(returned).analysis.estimatedAge = 45
    /\ The(returned).result.age = 30

-----------------------------------------------------------------------------
(* Properties of LocalFaceAnalysis.analyzeFace and of the object URLs *)

C25_FailureGivesDefault ==
    (/\ localAnalysis.pc = "settled"
     /\ localAnalysis.outcome \in {"loadError", "noContext", "noPixels"}) =>
        localAnalysis.result =
            Some([age |-> 30, gender |-> "unknown", confidence |-> Quotient(0, 1),
                  faceDetected |-> FALSE])

\* a call settled after getContext gave no context
C25_Witness ==
    /\ localAnalysis.pc = "settled"
    /\ localAnalysis.outcome = "noContext"
    /\ localAnalysis.result # NULL

\* C26: every object URL created for a photo is revoked on every exit path:
\* once no image is being loaded, no created URL is left unrevoked.
C26_ObjectURLsRevoked ==
    localAnalysis.pc # "fileToImage" => objectURLs = EmptyBag

\* C39: over any calls of initialize, one after another or while one is
\* suspended, loadModels runs at most once, and modelsLoaded never goes from
\* true back to false.
C39_LoadModelsOnce ==
    /\ [](localAnalysis.loadModels <= 1)
    /\ [][localAnalysis.modelsLoaded => localAnalysis'.modelsLoaded]_vars

\* initialize was called a second time while the body of the first was
\* suspended at its await, and loadModels has run once
C39_Witness ==
    /\ localAnalysis.initializeCalls = 2
    /\ localAnalysis.initializing = 1
    /\ ~localAnalysis.modelsLoaded
    /\ localAnalysis.loadModels = 1

-----------------------------------------------------------------------------
(* Properties of the loading step *)

\* C28: from the loading step the flow always eventually reaches the photo
\* step without any user event, and no user event cancels or pre-empts that
\* transition: every step taken while loading is the timer's.
C28_LoadingReachesPhoto ==
    /\ (currentStep = "loading") ~> (currentStep = "photo")
    /\ [][currentStep = "loading" => LoadingTimeout]_vars

\* the timer has fired and nothing else has happened
C28_Witness ==
    /\ currentStep = "photo"
    /\ uploads = 0
    /\ characterData.photo = NULL
    /\ gallery = {}

-----------------------------------------------------------------------------
(* Properties of the analysis analyzeFace returns *)

\* C29: every FaceAnalysis the remote estimator returns has its seven emotion
\* components and its four style components in 0.0 .. 100.0, whichever labels
\* the response carries.
C29_ComponentsInRange ==
    faceAnalysis # NULL =>
        /\ \A n \in Range(emotionNames) : The(faceAnalysis).emotions[n] \in 0..1000
        /\ \A n \in Range(styleNames) : The(faceAnalysis).style[n] \in 0..1000

\* analyzeFace returned an analysis of a response labelled with a smile and a
\* surprise, drawn with Math.random() at its highest
C29_Witness ==
    /\ invocation.op = "analyzeFace"
    /\ invocation.pc = "settled"
    /\ faceAnalysis # NULL
    /\ The(faceAnalysis).emotions.happy = 700 + 9 * 30
    /\ The(faceAnalysis).emotions.surprised = 600 + 9 * 30
    /\ The(faceAnalysis).style.casual = 9 * 100

-----------------------------------------------------------------------------
(* Properties of the personality scores *)

\* C21: energy is min(100, happy + surprised + 0.5 * fearful), friendliness
\* is min(100, happy + (100 - angry) + 0.3 * neutral) and confidence is
\* min(100, neutral + happy + (100 - fearful)); happy 80, surprised 40 and
\* neutral 10 with the rest 0 give the dominant emotion happy, energy 100
\* and friendliness 100.  (Scores in tenths, the equations times ten.)
C21_PersonalityFormulas ==
    characteristics # NULL =>
        LET e == The(faceAnalysis).emotions
            p == The(characteristics).personality
        IN  /\ 10 * p.energy
                 = Min(10000, 10 * e.happy + 10 * e.surprised + 5 * e.fearful)
            /\ 10 * p.friendliness
                 = Min(10000, 10 * e.happy + 10 * (1000 - e.angry) + 3 * e.neutral)
            /\ p.confidence = Min(1000, e.neutral + e.happy + (1000 - e.fearful))
            /\ e = smiling =>
                   /\ dominantEmotion(The(faceAnalysis)) = "happy"
                   /\ The(characteristics).specialFeatures
                        = generateSpecialFeaturesFromEmotion("happy")
                   /\ p.energy = 1000
                   /\ p.friendliness = 1000

\* the characteristics of the smiling analysis were derived
C21_Witness ==
    /\ characteristics # NULL
    /\ The(faceAnalysis).emotions = smiling
    /\ The(characteristics).personality.energy = 1000


-----------------------------------------------------------------------------
(* Properties of generate3DPop *)

\* C37: generate3DPop is all-or-nothing and ordered.  Its requests are issued
\* in the order analyzeFace, generate3DModel; a run that settled without an
\* error issued exactly those two, derived the characteristics and produced
\* an image; a run that settled with an error carries the one message of
\* generate3DPop, no characteristics and no image; model generation is
\* started only after a face analysis that succeeded, and the derivation
\* only after both requests.
C37_AllOrNothingInOrder ==
    invocation.op = "generate3DPop" =>
        LET requests == <<"analyzeFace", "generate3DModel">>
            issued == invocation.fetches
            done == invocation.pc = "settled"
        IN  /\ Len(issued) <= 2
            /\ issued = SubSeq(requests, 1, Len(issued))
            /\ done /\ invocation.error = NULL =>
                   /\ issued = requests
                   /\ faceAnalysis # NULL
                   /\ characteristics # NULL
                   /\ invocation.popImageUrl # NULL
            /\ done /\ invocation.error # NULL =>
                   /\ invocation.error = Some(msgPopFailed)
                   /\ characteristics = NULL
                   /\ invocation.popImageUrl = NULL
            /\ Len(issued) = 2 =>
                   /\ faceAnalysis # NULL
                   /\ invocation.response # NULL
                   /\ callHuggingFaceAPI(The(invocation.response)).body # NULL
            /\ faceAnalysis = NULL => characteristics = NULL
            /\ characteristics # NULL => done /\ issued = requests

\* a run that went through its four steps
C37_Witness ==
    /\ invocation.op = "generate3DPop"
    /\ invocation.pc = "settled"
    /\ invocation.error = NULL
    /\ invocation.fetches = <<"analyzeFace", "generate3DModel">>
    /\ characteristics # NULL
    /\ invocation.popImageUrl # NULL

\* C38: with a credential configured, generatePopImage returns the image
\* createPopStyleImage makes of its input; the unmodified input comes back
\* only when the credential is missing.
C38_PopImageIsStyled ==
    /\ invocation.op = "generate3DPop"
    /\ invocation.popImageUrl # NULL
    /\ ~tokenMissing
    => /\ ~createPopImagePromptThrows(The(characteristics))
       /\ The(invocation.popImageUrl)
            = createPopStyleImage(invocation.imageData, The(characteristics))
       /\ The(invocation.popImageUrl) # invocation.imageData


-----------------------------------------------------------------------------
(* Properties of the attributes and of leaving the photo and name steps *)

\* C32: when the flow leaves the photo step after an estimation succeeded,
\* the editable age, height and weight are those of the stored original
\* estimate, and that estimate is one analyzePhoto gives for a photo.
C32_SeededOnLeavingPhoto ==
    [][currentStep = "photo" /\ currentStep' # "photo" =>
          /\ characterData'.age = characterData'.aiGuesses.age
          /\ characterData'.height = characterData'.aiGuesses.height
          /\ characterData'.weight = characterData'.aiGuesses.weight
          /\ \E photo \in Photos : characterData'.aiGuesses \in analyzePhoto(photo)]_vars

\* the flow left the photo step with an estimate of the old man's photo
C32_Witness ==
    /\ currentStep = "name"
    /\ characterData.photo = Some(old_man_jpg)
    /\ characterData.aiGuesses \in analyzePhoto(old_man_jpg)
    /\ characterData.aiGuesses # fallbackGuesses
    /\ characterData.age = characterData.aiGuesses.age

\* C33: in the steps age, measures, card and complete the character name is
\* not empty after trimming.
C33_NameNonEmptyAfterNameStep ==
    currentStep \in {"age", "measures", "card", "complete"} =>
        trim(characterData.name) # <<>>

\* a step that leaves every field of characterData but one as it was
OnlyChanged(field) ==
    \A other \in DOMAIN characterData \ {field} :
        characterData'[other] = characterData[other]

\* C34: a slider's update changes only its own field of characterData: the
\* age slider leaves name, photo, height, weight and aiGuesses unchanged, and
\* likewise the height and weight sliders; two updates issued before the
\* next render both take effect and leave the other fields unchanged.
C34_OnlyThatFieldChanges ==
    [][/\ UpdateAge => OnlyChanged("age") /\ characterData'.age = AgeMax
       /\ UpdateHeight => OnlyChanged("height") /\ characterData'.height = HeightMax
       /\ UpdateWeight => OnlyChanged("weight") /\ characterData'.weight = WeightMax
       /\ UpdateHeight \/ UpdateWeight =>
            LET first == updateCharacterData(characterData, "height", HeightMax)
                batched == updateCharacterData(first, "weight", WeightMax)
            IN  /\ batched.height = HeightMax
                /\ batched.weight = WeightMax
                /\ \A other \in DOMAIN characterData \ {"height", "weight"} :
                       batched[other] = characterData[other]]_vars

\* the three sliders were moved away from the estimate
C34_Witness ==
    /\ currentStep = "measures"
    /\ characterData.age = AgeMax
    /\ characterData.height = HeightMax
    /\ characterData.weight = WeightMax
    /\ characterData.aiGuesses.age # AgeMax
    /\ characterData.aiGuesses.height # HeightMax
    /\ characterData.aiGuesses.weight # WeightMax
    /\ trim(characterData.name) # <<>>

\* C35: once a photo is supplied in the photo step the flow reaches the name
\* step, whether the estimation resolves or rejects.
C35_PhotoLeadsToName ==
    (currentStep = "photo" /\ characterData.photo # NULL) ~> (currentStep = "name")

\* the name step was reached with the fallback guesses of a rejected estimation
C35_Witness ==
    /\ currentStep = "name"
    /\ characterData.photo # NULL
    /\ characterData.aiGuesses = fallbackGuesses
    /\ analyses = EmptyBag

=============================================================================
